---------------------------- MODULE Spec2Model ----------------------------
(***************************************************************************)
(* Sliding-window priority-fee tracker: the SlotCache (bounded FIFO set of *)
(* slots with a last-seen hint) and the PriorityFeeTracker ledger          *)
(* (slot -> SlotPriorityFees), driven by concurrent                        *)
(* push_priority_fee_for_txn calls.                                        *)
(*                                                                         *)
(* Each producer thread runs push_priority_fee_for_txn as a sequence of    *)
(* atomic steps, one per shared-memory access of the code:                 *)
(*   hint load (slot_cache.rs:32), set lookup (:35), hint store (:36),     *)
(*   write-lock + re-check + queue add (:39-46), set remove (:48-50),      *)
(*   set insert (:51), hint store + unlock (:52-53), ledger remove         *)
(*   (tracker.rs:53-55), ledger entry/append (tracker.rs:58-73).           *)
(*                                                                         *)
(* Queries (calculate_priority_fee) run the percentile algorithms of       *)
(* calculation.rs over the ledger and fold the buckets' percentiles with   *)
(* estimate_max_values (tracker.rs:121-153).                               *)
(***************************************************************************)
EXTENDS Integers, Sequences, FiniteSets, TLC

\* ------------------------------------------------------------- bounds
\* Ordinary slot numbers are 1..MaxSlot.
MaxSlot == 2
\* Largest capacity a tracker is constructed with.
MaxCapacity == 2
\* Longest account list of a pushed transaction.
MaxAccounts == 2
\* Pushes started in one behaviour with concurrent producers.
MaxPushes == 3
\* Pushes started in one behaviour of the single-threaded specification.
MaxPushesSeq == 3
\* Pushes started in one behaviour of the window specification.
MaxPushesWindow == 5

\* Pushes started in one behaviour of the query specification.
MaxPushesQuery == 3
\* Largest lookback period a request names.
MaxLookback == 1
\* Longest sample vector of a bucket handed to the estimate fold.
MaxSamples == 2
\* Pushes started in one behaviour of the runs where a query overlaps with pushes.
MaxPushesRace == 3
\* Pushes started in one behaviour of the runs under fair scheduling.
MaxPushesLive == 2

\* ---------------------------------------------------------- constants
\* The slot domain is u64 scaled down: its largest value, u64::MAX, is the
\* value the last-seen hint starts with.
U64_MAX == MaxSlot + 1

Slots == 1..U64_MAX
Threads == {"p1", "p2"}
Accounts == {"a"}
\* priority_fee arguments
Fees1 == {1, 2}

\* Option<Slot>: None is <<>>, Some(e) is <<e>>.
None == <<>>
Some(e) == <<e>>

RECURSIVE SeqsUpTo(_, _)
SeqsUpTo(S, n) ==
    IF n = 0 THEN {<<>>}
    ELSE LET shorter == SeqsUpTo(S, n - 1)
         IN  shorter \cup {Append(q, x) : q \in {r \in shorter : Len(r) = n - 1}, x \in S}

\* Vec<Pubkey> arguments: every list over Accounts up to MaxAccounts long,
\* lists that repeat an account included.
AccountLists == SeqsUpTo(Accounts, MaxAccounts)

Range(q) == {q[i] : i \in 1..Len(q)}

VARIABLES
    capacity,        \* CircularBuffer capacity (slot_cache_length)
    slot_queue,      \* SlotCache.slot_queue: the CircularBuffer's contents, oldest first
    slot_set,        \* SlotCache.slot_set
    last_seen_slot,  \* SlotCache.last_seen_slot
    queue_writer,    \* holder of slot_queue's write lock: {} or {thread}
    poisoned,        \* slot_queue's lock is poisoned: a holder of the write guard panicked
    priority_fees,   \* PriorityFeeTracker.priority_fees: slot -> SlotPriorityFees
    pc,              \* each thread's position in push_priority_fee_for_txn
    args,            \* each thread's arguments (slot, accounts, priority_fee, is_vote)
    oldest,          \* each thread's push_pop result (Option<Slot>)
    budget,          \* pushes that may still start
    qpc,             \* the query's position in calculate_priority_fee
    request,         \* the query's `calculation` (Calculations)
    stats,           \* the query's DataStats (`data`): bucket key -> samples
    todo,            \* the buckets estimate_max_values has not visited yet
    result,          \* the accumulator of estimate_max_values (`estimates`)
    scan,            \* the query's loop position: slots of &slots_vec[..lookback] not yet read
    seen,            \* history: what priority_fees.get(slot) found for each slot the query read
    sequential,      \* TRUE: calls never overlap (single-threaded run)
    admitted,        \* history: slots in the order they entered the window
    lock_failed,     \* history: threads whose current push got Err from slot_queue.write()
    calls,           \* history: the slots of the push_pop calls, in call order (single producer)
    snap,            \* history: window contents when a non-overlapping call started
    ingested,        \* history: pushes appended to each slot's record since it was created
    stale,           \* history: threads whose slot was evicted since they were called
    owed             \* history: (slot, fee) of returned pushes whose slot was not evicted
                     \* since they were called

vars == <<capacity, slot_queue, slot_set, last_seen_slot, queue_writer, poisoned,
          priority_fees, pc, args, oldest, budget, sequential,
          qpc, request, stats, todo, result, scan, seen,
          admitted, lock_failed, calls, snap, ingested, stale, owed>>

window == <<slot_queue, slot_set, last_seen_slot, queue_writer>>
querying == <<qpc, request, stats, todo, result, scan, seen>>
history == <<admitted, lock_failed, calls, snap, ingested, stale, owed>>

NoArgs == [slot |-> 0, accounts |-> <<>>, priority_fee |-> 0, is_vote |-> FALSE]
NoCalculation == [algo |-> "none", accounts |-> <<>>, include_vote |-> FALSE,
                  include_empty_slots |-> FALSE, lookback_period |-> None]
NoSnap == [set |-> {}, queue |-> <<>>, log |-> <<>>, taken |-> FALSE]
NoIngested == [n |-> 0, acc |-> [a \in Accounts |-> 0]]

\* ------------------------------------------------------ model.rs: Fees
\* priority_fee as f64: exact for every fee below 2^53, which all model fees are.
AsF64(priority_fee) == priority_fee

\* Fees::new
FeesNew(fee, is_vote) ==
    IF is_vote
    THEN [vote_fees |-> <<fee>>, non_vote_fees |-> <<>>]
    ELSE [vote_fees |-> <<>>, non_vote_fees |-> <<fee>>]

\* Fees::add_fee
AddFee(fees, fee, is_vote) ==
    IF is_vote
    THEN [fees EXCEPT !.vote_fees = Append(@, fee)]
    ELSE [fees EXCEPT !.non_vote_fees = Append(@, fee)]

\* DashMap::default(): the empty map
EmptyMap == [x \in {} |-> {}]

\* DashMap::insert(key, value) on a map held as a function
MapInsert(m, k, v) == [x \in DOMAIN m \cup {k} |-> IF x = k THEN v ELSE m[x]]

\* DashMap::remove(key)
MapRemove(m, k) == [x \in DOMAIN m \ {k} |-> m[x]]

\* SlotPriorityFees::new: the loop inserts a clone of the one-fee Fees per listed account
RECURSIVE InsertAccounts(_, _, _)
InsertAccounts(account_fees, accounts, fees) ==
    IF accounts = <<>> THEN account_fees
    ELSE InsertAccounts(MapInsert(account_fees, Head(accounts), fees), Tail(accounts), fees)

SlotPriorityFeesNew(slot, accounts, priority_fee, is_vote) ==
    LET fees == FeesNew(AsF64(priority_fee), is_vote)
    IN  [slot |-> slot, fees |-> fees,
         account_fees |-> InsertAccounts(EmptyMap, accounts, fees)]

\* Entry::Occupied: per listed account, entry(account).and_modify(add_fee).or_insert(Fees::new)
RECURSIVE ModifyAccounts(_, _, _, _)
ModifyAccounts(account_fees, accounts, fee, is_vote) ==
    IF accounts = <<>> THEN account_fees
    ELSE LET a == Head(accounts)
             next == IF a \in DOMAIN account_fees
                     THEN [account_fees EXCEPT ![a] = AddFee(@, fee, is_vote)]
                     ELSE MapInsert(account_fees, a, FeesNew(fee, is_vote))
         IN  ModifyAccounts(next, Tail(accounts), fee, is_vote)

\* ------------------------------------------- slot_cache.rs: SlotCache
\* Mutant of QueueAdd: at capacity the lowest-numbered slot is dropped, not the head.
RECURSIVE WithoutFirst(_, _)
WithoutFirst(q, x) ==
    IF q = <<>> THEN <<>>
    ELSE IF Head(q) = x THEN Tail(q) ELSE <<Head(q)>> \o WithoutFirst(Tail(q), x)

QueueAdd_EvictLowest(queue, cap, slot) ==
    IF Len(queue) < cap
    THEN [queue |-> Append(queue, slot), oldest |-> None]
    ELSE LET pushed == Append(queue, slot)
             lowest == CHOOSE x \in Range(pushed) : \A y \in Range(pushed) : x <= y
         IN  [queue |-> WithoutFirst(pushed, lowest), oldest |-> Some(lowest)]

\* Mutant of QueueAdd: the capacity test is off by one.
QueueAdd_OffByOne(queue, cap, slot) ==
    IF Len(queue) + 1 < cap
    THEN [queue |-> Append(queue, slot), oldest |-> None]
    ELSE LET pushed == Append(queue, slot)
         IN  [queue |-> Tail(pushed), oldest |-> Some(Head(pushed))]

\* CircularBuffer::add as called at slot_cache.rs:46: below capacity the value is
\* pushed; at capacity it is pushed and the head is removed and returned.
QueueAdd(queue, cap, slot) ==
    IF Len(queue) < cap
    THEN [queue |-> Append(queue, slot), oldest |-> None]
    ELSE LET pushed == Append(queue, slot)
         IN  [queue |-> Tail(pushed), oldest |-> Some(Head(pushed))]

\* Mutant of Contains: the lookup misses every slot.
Contains_Miss(set, slot) == FALSE

\* slot_set.contains(&slot)
Contains(set, slot) == slot \in set

\* Mutant of SetRemoveOldest: the evicted slot stays in the set.
SetRemoveOldest_Keep(set, maybe_oldest_slot) == set

\* slot_set.remove(&oldest_slot) under `if let Some(oldest_slot)`
SetRemoveOldest(set, maybe_oldest_slot) ==
    IF maybe_oldest_slot # None THEN set \ {maybe_oldest_slot[1]} ELSE set

\* Mutant of LedgerRemoveOldest: the evicted slot's record is kept.
LedgerRemoveOldest_Keep(ledger, maybe_oldest_slot) == ledger

\* tracker.rs:53-55: priority_fees.remove(&oldest_slot) when push_pop returned Some
LedgerRemoveOldest(ledger, maybe_oldest_slot) ==
    IF maybe_oldest_slot # None /\ maybe_oldest_slot[1] \in DOMAIN ledger
    THEN MapRemove(ledger, maybe_oldest_slot[1])
    ELSE ledger

\* Mutant of LedgerAppend: the slot's record is overwritten by a fresh one.
LedgerAppend_Replace(ledger, slot, accounts, priority_fee, is_vote) ==
    MapInsert(ledger, slot, SlotPriorityFeesNew(slot, accounts, priority_fee, is_vote))

\* tracker.rs:58-73: the entry match of push_priority_fee_for_txn
LedgerAppend(ledger, slot, accounts, priority_fee, is_vote) ==
    IF slot \in DOMAIN ledger
    THEN [ledger EXCEPT ![slot] =
            [@ EXCEPT !.fees = AddFee(@, AsF64(priority_fee), is_vote),
                      !.account_fees =
                          ModifyAccounts(@, accounts, AsF64(priority_fee), is_vote)]]
    ELSE MapInsert(ledger, slot, SlotPriorityFeesNew(slot, accounts, priority_fee, is_vote))

\* ------------------------------------------------- f64 values and NaN
\* An f64 that may be NaN: NaN is <<>>, the number x is <<x>>.  Fees are held as
\* themselves; percentiles, which interpolate, are held exactly in units of 1/Unit.
NaN == <<>>
Num(x) == <<x>>
Unit == 300

\* f64::is_nan
IsNan(x) == x = NaN

\* f64 `>`: false when either side is NaN
Gt(x, y) == x # NaN /\ y # NaN /\ x[1] > y[1]

\* DataType (model.rs:61-78)
Global == <<"Global">>
AllAccounts == <<"AllAccounts">>
Account(a) == <<"Account", a>>

\* Pubkeys a request may name; "b" and "c" are named by no transaction of the
\* bounded runs.
Pubkeys == {"a", "b", "c"}

MinOf(S) == CHOOSE x \in S : \A y \in S : x <= y
MaxOf(S) == CHOOSE x \in S : \A y \in S : y <= x

\* ------------------------------------- statrs Data<Vec<f64>>::percentile
\* select_inplace(rank): the value at index rank (from 0) of the sorted samples
SelectInplace(samples, rank) ==
    CHOOSE v \in Range(samples) :
        /\ Cardinality({i \in 1..Len(samples) : samples[i] < v}) <= rank
        /\ rank < Cardinality({i \in 1..Len(samples) : samples[i] <= v})

\* Mutant of percentile: the type-7 quantile, h = (n - 1) * p / 100.
percentile_Type7(samples, p) ==
    LET n == Len(samples)
        H == (n - 1) * p
        hf == H \div 100
    IN  IF n = 0 THEN NaN
        ELSE IF hf + 1 >= n THEN Num(Unit * MaxOf(Range(samples)))
        ELSE LET a == SelectInplace(samples, hf)
                 b == SelectInplace(samples, hf + 1)
             IN  Num(Unit * a + 3 * (H - 100 * hf) * (b - a))

\* OrderStatistics::percentile(p) = quantile(p / 100) as tracker.rs:126-131 calls it:
\* NaN on no samples; else h = (n + 1/3) * p/100 + 1/3, hf = trunc(h); the minimum
\* when hf <= 0 or p = 0, the maximum when hf >= n or p = 100, else
\* sorted[hf-1] + (h - hf) * (sorted[hf] - sorted[hf-1]).  H is h in units of 1/Unit.
percentile(samples, p) ==
    LET n == Len(samples)
        H == (3 * n + 1) * p + 100
        hf == H \div Unit
    IN  IF n = 0 THEN NaN
        ELSE IF hf <= 0 \/ p = 0 THEN Num(Unit * MinOf(Range(samples)))
        ELSE IF hf >= n \/ p = 100 THEN Num(Unit * MaxOf(Range(samples)))
        ELSE LET a == SelectInplace(samples, hf - 1)
                 b == SelectInplace(samples, hf)
             IN  Num(Unit * a + (H - Unit * hf) * (b - a))

\* ------------------------------------------ tracker.rs: the estimate fold
\* MicroLamportPriorityFeeEstimates::default(): the derived Default, every level 0.0
EstimatesDefault ==
    [min |-> Num(0), low |-> Num(0), medium |-> Num(0), high |-> Num(0),
     very_high |-> Num(0), unsafe_max |-> Num(0)]

\* The six levels and the percentile of each (tracker.rs:126-131)
Levels == {"min", "low", "medium", "high", "very_high", "unsafe_max"}
PointOf(level) ==
    CASE level = "min" -> 0
      [] level = "low" -> 25
      [] level = "medium" -> 50
      [] level = "high" -> 75
      [] level = "very_high" -> 95
      [] level = "unsafe_max" -> 100

\* Mutant of Replaces: every bucket overwrites the accumulator.
Replaces_Always(value, current) == TRUE

\* Mutant of Replaces: the smaller value wins.
Replaces_Smaller(value, current) == Gt(current, value) \/ IsNan(current)

\* tracker.rs:133: `min > estimates.min || estimates.min.is_nan()`, the same at each level
Replaces(value, current) == Gt(value, current) \/ IsNan(current)

\* tracker.rs:126-150: the body of the loop of estimate_max_values, for one bucket
FoldBucket(estimates, samples) ==
    [level \in Levels |->
        LET value == percentile(samples, PointOf(level))
        IN  IF Replaces(value, estimates[level]) THEN value ELSE estimates[level]]

\* estimate_max_values over the buckets in the order `order` visits them
RECURSIVE estimate_max_values(_, _, _)
estimate_max_values(fees, order, estimates) ==
    IF order = <<>> THEN estimates
    ELSE estimate_max_values(fees, Tail(order), FoldBucket(estimates, fees[Head(order)]))

\* fees.values_mut(): a HashMap visits its values in an order the program does not fix
RECURSIVE Orders(_)
Orders(S) ==
    IF S = {} THEN {<<>>}
    ELSE UNION {{<<k>> \o o : o \in Orders(S \ {k})} : k \in S}

\* ------------------------------------------------------- calculation.rs
\* Mutant of calculate_lookback_size: one slot more than the preference.
calculate_lookback_size_OffByOne(pref_num_slots, max_available_slots) ==
    LET pref == IF pref_num_slots = None THEN max_available_slots ELSE pref_num_slots[1] + 1
    IN  IF max_available_slots <= pref THEN max_available_slots ELSE pref

\* calculate_lookback_size: min(available, preference), the preference defaulting
\* to what is available
calculate_lookback_size(pref_num_slots, max_available_slots) ==
    LET pref == IF pref_num_slots = None THEN max_available_slots ELSE pref_num_slots[1]
    IN  IF max_available_slots <= pref THEN max_available_slots ELSE pref

\* Mutant of SlotsVec: the slots lowest first.
RECURSIVE SlotsVec_Ascending(_)
SlotsVec_Ascending(slots) ==
    IF slots = {} THEN <<>>
    ELSE <<MinOf(slots)>> \o SlotsVec_Ascending(slots \ {MinOf(slots)})

\* calculation.rs:119-121: the ledger's slots, sorted and reversed (highest first)
RECURSIVE SlotsVec(_)
SlotsVec(slots) ==
    IF slots = {} THEN <<>>
    ELSE <<MaxOf(slots)>> \o SlotsVec(slots \ {MaxOf(slots)})

\* Mutant of SelectFees: vote fees are taken whatever include_vote says.
SelectFees_WithVotes(fees, include_vote) == fees.vote_fees \o fees.non_vote_fees

\* calculation.rs:129-132 (and :140-143, :188-191, :198-201): the vote fees when
\* include_vote, then the non-vote fees
SelectFees(fees, include_vote) ==
    (IF include_vote THEN fees.vote_fees ELSE <<>>) \o fees.non_vote_fees

\* Mutant of AccountsIsEmpty: the request is never taken to be empty.
AccountsIsEmpty_Never(accounts) == FALSE

\* accounts.is_empty() (calculation.rs:134)
AccountsIsEmpty(accounts) == accounts = <<>>

\* Mutant of InjectsZero: the 0.0 is pushed whether or not an account had data.
InjectsZero_IgnoresData(has_data, include_empty_slots) == include_empty_slots

\* calculation.rs:147: `!has_data && *include_empty_slots`
InjectsZero(has_data, include_empty_slots) == ~has_data /\ include_empty_slots

\* Mutant of LedgerGet: a slot that is gone reads as a record without fees.
LedgerGet_EmptyRecord(ledger, slot) ==
    IF slot \in DOMAIN ledger THEN Some(ledger[slot])
    ELSE Some([slot |-> slot, fees |-> [vote_fees |-> <<>>, non_vote_fees |-> <<>>],
               account_fees |-> EmptyMap])

\* priority_fees.get(slot) (calculation.rs:128, :185): Option<SlotPriorityFees>
LedgerGet(ledger, slot) ==
    IF slot \in DOMAIN ledger THEN Some(ledger[slot]) ELSE None

\* v1, calculation.rs:136-146: the loop over the requested accounts for one slot
RECURSIVE V1Accounts(_, _, _, _)
V1Accounts(acc, accounts, slot_priority_fees, include_vote) ==
    IF accounts = <<>> THEN acc
    ELSE LET account == Head(accounts)
             next == IF account \in DOMAIN slot_priority_fees.account_fees
                     THEN [account_fees |-> acc.account_fees \o
                               SelectFees(slot_priority_fees.account_fees[account],
                                          include_vote),
                           has_data |-> TRUE]
                     ELSE acc
         IN  V1Accounts(next, Tail(accounts), slot_priority_fees, include_vote)

\* v1, calculation.rs:127-152: the loop over the examined slots
RECURSIVE V1Slots(_, _, _, _, _, _)
V1Slots(st, slots, accounts, include_vote, include_empty_slots, ledger) ==
    IF slots = <<>> THEN st
    ELSE LET slot == Head(slots)
             next ==
               IF LedgerGet(ledger, slot) # None
               THEN LET slot_priority_fees == LedgerGet(ledger, slot)[1]
                        r == V1Accounts([account_fees |-> st.account_fees,
                                         has_data |-> FALSE],
                                        accounts, slot_priority_fees, include_vote)
                    IN  [global_fees |-> st.global_fees \o
                             SelectFees(slot_priority_fees.fees, include_vote),
                         account_fees |->
                             IF AccountsIsEmpty(accounts) THEN st.account_fees
                             ELSE IF InjectsZero(r.has_data, include_empty_slots)
                                  THEN Append(r.account_fees, 0)
                                  ELSE r.account_fees]
               ELSE st
         IN  V1Slots(next, Tail(slots), accounts, include_vote, include_empty_slots, ledger)

\* v1::get_priority_fee_estimates
v1_get_priority_fee_estimates(accounts, include_vote, include_empty_slots, lookback_period, ledger) ==
    LET slots_vec == SlotsVec(DOMAIN ledger)
        lookback == calculate_lookback_size(lookback_period, Len(slots_vec))
        st == V1Slots([global_fees |-> <<>>, account_fees |-> <<>>],
                      SubSeq(slots_vec, 1, lookback),
                      accounts, include_vote, include_empty_slots, ledger)
    IN  MapInsert(MapInsert(EmptyMap, Global, st.global_fees),
                  AllAccounts, st.account_fees)

\* data.entry(key).or_default() followed by extending the vector
ExtendEntry(data, key, more) ==
    MapInsert(data, key, (IF key \in DOMAIN data THEN data[key] ELSE <<>>) \o more)

\* v2, calculation.rs:193-205: the loop over the requested accounts for one slot
RECURSIVE V2Accounts(_, _, _, _, _)
V2Accounts(data, accounts, slot_priority_fees, include_vote, include_empty_slots) ==
    IF accounts = <<>> THEN data
    ELSE LET account == Head(accounts)
             more == IF account \in DOMAIN slot_priority_fees.account_fees
                     THEN SelectFees(slot_priority_fees.account_fees[account], include_vote)
                     ELSE IF include_empty_slots THEN <<0>> ELSE <<>>
         IN  V2Accounts(ExtendEntry(data, Account(account), more), Tail(accounts),
                        slot_priority_fees, include_vote, include_empty_slots)

\* v2, calculation.rs:184-207: the loop over the examined slots
RECURSIVE V2Slots(_, _, _, _, _, _)
V2Slots(data, slots, accounts, include_vote, include_empty_slots, ledger) ==
    IF slots = <<>> THEN data
    ELSE LET slot == Head(slots)
             next ==
               IF LedgerGet(ledger, slot) # None
               THEN LET slot_priority_fees == LedgerGet(ledger, slot)[1]
                    IN  V2Accounts(ExtendEntry(data, Global,
                                       SelectFees(slot_priority_fees.fees, include_vote)),
                                   accounts, slot_priority_fees, include_vote,
                                   include_empty_slots)
               ELSE data
         IN  V2Slots(next, Tail(slots), accounts, include_vote, include_empty_slots, ledger)

\* v2::get_priority_fee_estimates
v2_get_priority_fee_estimates(accounts, include_vote, include_empty_slots, lookback_period, ledger) ==
    LET slots_vec == SlotsVec(DOMAIN ledger)
        lookback == calculate_lookback_size(lookback_period, Len(slots_vec))
    IN  V2Slots(EmptyMap, SubSeq(slots_vec, 1, lookback),
                accounts, include_vote, include_empty_slots, ledger)

\* Calculations::get_priority_fee_estimates (calculation.rs:71-101)
get_priority_fee_estimates(calculation, ledger) ==
    IF calculation.algo = "Calculation1"
    THEN v1_get_priority_fee_estimates(calculation.accounts, calculation.include_vote,
                                       calculation.include_empty_slots,
                                       calculation.lookback_period, ledger)
    ELSE v2_get_priority_fee_estimates(calculation.accounts, calculation.include_vote,
                                       calculation.include_empty_slots,
                                       calculation.lookback_period, ledger)

\* Mutant of ContainsLocked: the set is not looked at again under the lock.
ContainsLocked_Skip(set, slot) == FALSE

\* slot_cache.rs:41: slot_set.contains(&slot) once the write lock is held
ContainsLocked(set, slot) == slot \in set

\* Mutant of Unlock: the write guard is not dropped when push_pop returns.
Unlock_Leak(writer, t) == writer

\* The write guard of slot_cache.rs:40 goes out of scope when push_pop returns
\* (slot_cache.rs:43, :53), which releases the lock.
Unlock(writer, t) == writer \ {t}

\* ------------------------------------------------------------- Init
\* PriorityFeeTracker::new / SlotCache::new: no check on slot_cache_length.
InitTracker(caps, seq, pushes) ==
    /\ capacity \in caps
    /\ slot_queue = <<>>
    /\ slot_set = {}
    /\ last_seen_slot = U64_MAX
    /\ queue_writer = {}
    /\ poisoned = FALSE
    /\ priority_fees = EmptyMap
    /\ pc = [t \in Threads |-> "idle"]
    /\ args = [t \in Threads |-> NoArgs]
    /\ oldest = [t \in Threads |-> None]
    /\ budget = pushes
    /\ sequential = seq
    /\ admitted = <<>>
    /\ lock_failed = {}
    /\ calls = <<>>
    /\ snap = NoSnap
    /\ ingested = [s \in Slots |-> NoIngested]
    /\ stale = {}
    /\ owed = {}

\* A tracker just constructed, no query running
InitState(caps, seq, pushes) ==
    /\ InitTracker(caps, seq, pushes)
    /\ qpc = "idle"
    /\ request = NoCalculation
    /\ stats = EmptyMap
    /\ todo = {}
    /\ result = EstimatesDefault
    /\ scan = <<>>
    /\ seen = EmptyMap

Init == InitState(1..MaxCapacity, FALSE, MaxPushes)

\* A single-threaded run: one producer, calls never overlap.
InitSeq == InitState(1..MaxCapacity, TRUE, MaxPushesSeq)

\* A single-threaded run that exercises the window.
InitWindow == InitState(1..MaxCapacity, TRUE, MaxPushesWindow)

\* Every slot_cache_length the constructor accepts, zero included.
InitAnyCap == InitState(0..MaxCapacity, TRUE, MaxPushesSeq)

\* ---------------------------------------------------------- actions
\* push_priority_fee_for_txn is called; push_pop loads the hint (slot_cache.rs:32)
\* and returns None at once when it equals the slot.
Call(t, slot, accounts, priority_fee, is_vote) ==
    /\ pc[t] = "idle"
    /\ budget > 0
    /\ budget' = budget - 1
    /\ args' = [args EXCEPT ![t] = [slot |-> slot, accounts |-> accounts,
                                    priority_fee |-> priority_fee, is_vote |-> is_vote]]
    /\ oldest' = [oldest EXCEPT ![t] = None]
    /\ pc' = [pc EXCEPT ![t] = IF last_seen_slot = slot THEN "remove" ELSE "contains"]
    /\ snap' = IF sequential
               THEN [set |-> slot_set, queue |-> slot_queue, log |-> admitted, taken |-> TRUE]
               ELSE snap
    /\ calls' = IF sequential THEN Append(calls, slot) ELSE calls
    /\ stale' = stale \ {t}
    /\ UNCHANGED <<capacity, poisoned, querying, window, priority_fees, sequential, admitted,
                   lock_failed, ingested, owed>>

\* slot_cache.rs:35: the unlocked slot_set.contains(&slot)
SetContains(t) ==
    /\ pc[t] = "contains"
    /\ pc' = [pc EXCEPT ![t] = IF Contains(slot_set, args[t].slot)
                               THEN "store_hit" ELSE "lock"]
    /\ UNCHANGED <<capacity, poisoned, querying, window, priority_fees, args, oldest, budget, sequential, history>>

\* slot_cache.rs:36-37: store the hint, return None
StoreHit(t) ==
    /\ pc[t] = "store_hit"
    /\ last_seen_slot' = args[t].slot
    /\ pc' = [pc EXCEPT ![t] = "remove"]
    /\ UNCHANGED <<capacity, poisoned, querying, slot_queue, slot_set, queue_writer, priority_fees, args,
                   oldest, budget, sequential, history>>

\* slot_cache.rs:39-46: take the write lock, re-check the set, add to the queue.
\* The set only changes under the lock, so the re-check sees what the lock holder
\* would see at any later moment of its critical section.
Lock(t) ==
    /\ pc[t] = "lock"
    /\ queue_writer = {}
    /\ ~poisoned
    /\ queue_writer' = {t}
    /\ IF ContainsLocked(slot_set, args[t].slot)
       THEN /\ pc' = [pc EXCEPT ![t] = "store_locked"]
            /\ UNCHANGED <<slot_queue, oldest, admitted, stale, owed>>
       ELSE LET r == QueueAdd(slot_queue, capacity, args[t].slot)
            IN  /\ slot_queue' = r.queue
                /\ oldest' = [oldest EXCEPT ![t] = r.oldest]
                /\ pc' = [pc EXCEPT ![t] = "set_remove"]
                /\ admitted' = Append(admitted, args[t].slot)
                /\ stale' = stale \cup {u \in Threads : pc[u] # "idle"
                                                          /\ Some(args[u].slot) = r.oldest}
                /\ owed' = {o \in owed : Some(o.slot) # r.oldest}
    /\ UNCHANGED <<capacity, poisoned, querying, slot_set, last_seen_slot, priority_fees, args, budget,
                   sequential, lock_failed, calls, snap, ingested>>

\* slot_cache.rs:60-63: slot_queue.write() returns Err on a poisoned lock (once no
\* other thread holds it); the error is logged and push_pop returns None.
LockPoisoned(t) ==
    /\ pc[t] = "lock"
    /\ queue_writer = {}
    /\ poisoned
    /\ oldest' = [oldest EXCEPT ![t] = None]
    /\ pc' = [pc EXCEPT ![t] = "remove"]
    /\ lock_failed' = lock_failed \cup {t}
    /\ UNCHANGED <<capacity, poisoned, querying, window, priority_fees, args, budget, sequential,
                   admitted, calls, snap, ingested, stale, owed>>

\* A thread panics while it holds the write guard of slot_cache.rs:40: the guard is
\* dropped during unwinding, which releases the lock and poisons it; the thread is gone.
Panic(t) ==
    /\ pc[t] \in {"set_remove", "set_insert", "store_new", "store_locked"}
    /\ queue_writer = {t}
    /\ queue_writer' = {}
    /\ poisoned' = TRUE
    /\ pc' = [pc EXCEPT ![t] = "panicked"]
    /\ UNCHANGED <<capacity, querying, slot_queue, slot_set, last_seen_slot, priority_fees,
                   args, oldest, budget, sequential, history>>

\* slot_cache.rs:42-43: store the hint, return None, drop the lock
StoreLocked(t) ==
    /\ pc[t] = "store_locked"
    /\ last_seen_slot' = args[t].slot
    /\ queue_writer' = Unlock(queue_writer, t)
    /\ pc' = [pc EXCEPT ![t] = "remove"]
    /\ UNCHANGED <<capacity, poisoned, querying, slot_queue, slot_set, priority_fees, args, oldest, budget,
                   sequential, history>>

\* slot_cache.rs:48-50: remove the evicted slot from the set
SetRemove(t) ==
    /\ pc[t] = "set_remove"
    /\ slot_set' = SetRemoveOldest(slot_set, oldest[t])
    /\ pc' = [pc EXCEPT ![t] = "set_insert"]
    /\ UNCHANGED <<capacity, poisoned, querying, slot_queue, last_seen_slot, queue_writer, priority_fees, args,
                   oldest, budget, sequential, history>>

\* slot_cache.rs:51: insert the slot into the set
SetInsert(t) ==
    /\ pc[t] = "set_insert"
    /\ slot_set' = slot_set \cup {args[t].slot}
    /\ pc' = [pc EXCEPT ![t] = "store_new"]
    /\ UNCHANGED <<capacity, poisoned, querying, slot_queue, last_seen_slot, queue_writer, priority_fees, args,
                   oldest, budget, sequential, history>>

\* slot_cache.rs:52-53: store the hint, return maybe_oldest_slot, drop the lock
StoreNew(t) ==
    /\ pc[t] = "store_new"
    /\ last_seen_slot' = args[t].slot
    /\ queue_writer' = Unlock(queue_writer, t)
    /\ pc' = [pc EXCEPT ![t] = "remove"]
    /\ UNCHANGED <<capacity, poisoned, querying, slot_queue, slot_set, priority_fees, args, oldest, budget,
                   sequential, history>>

\* tracker.rs:53-55: remove the evicted slot's record
Remove(t) ==
    /\ pc[t] = "remove"
    /\ priority_fees' = LedgerRemoveOldest(priority_fees, oldest[t])
    /\ ingested' = [s \in Slots |-> IF s \in DOMAIN priority_fees'
                                    THEN ingested[s] ELSE NoIngested]
    /\ pc' = [pc EXCEPT ![t] = "entry"]
    /\ UNCHANGED <<capacity, poisoned, querying, window, args, oldest, budget, sequential, admitted,
                   lock_failed, calls, snap, stale, owed>>

\* tracker.rs:58-73: append to the slot's record or create it (the entry holds the
\* shard lock, so the whole match is one step)
Entry(t) ==
    /\ pc[t] = "entry"
    /\ priority_fees' = LedgerAppend(priority_fees, args[t].slot, args[t].accounts,
                                     args[t].priority_fee, args[t].is_vote)
    /\ LET s == args[t].slot
           listed == Range(args[t].accounts)
           old == IF s \in DOMAIN priority_fees THEN ingested[s] ELSE NoIngested
       IN  ingested' = [ingested EXCEPT ![s] =
                [n |-> old.n + 1,
                 acc |-> [a \in Accounts |-> old.acc[a] + IF a \in listed THEN 1 ELSE 0]]]
    /\ pc' = [pc EXCEPT ![t] = "done"]
    /\ UNCHANGED <<capacity, poisoned, querying, window, args, oldest, budget, sequential, admitted,
                   lock_failed, calls, snap, stale, owed>>

\* push_priority_fee_for_txn returns
Return(t) ==
    /\ pc[t] = "done"
    /\ pc' = [pc EXCEPT ![t] = "idle"]
    /\ owed' = IF t \in stale THEN owed
               ELSE owed \cup {[slot |-> args[t].slot, fee |-> AsF64(args[t].priority_fee)]}
    /\ stale' = stale \ {t}
    /\ args' = [args EXCEPT ![t] = NoArgs]
    /\ oldest' = [oldest EXCEPT ![t] = None]
    /\ snap' = NoSnap
    /\ lock_failed' = lock_failed \ {t}
    /\ UNCHANGED <<capacity, poisoned, querying, window, priority_fees, budget, sequential, admitted, calls,
                   ingested>>

\* The steps of a push after its call, but for the hint store under the lock.
Steps(t) ==
    \/ SetContains(t)
    \/ StoreHit(t)
    \/ Lock(t)
    \/ SetRemove(t)
    \/ SetInsert(t)
    \/ StoreNew(t)
    \/ Remove(t)
    \/ Entry(t)
    \/ Return(t)

\* Concurrent producers; their transactions are non-vote and list no account.
Next ==
    \E t \in Threads :
        \/ \E slot \in Slots, priority_fee \in Fees1 :
              Call(t, slot, <<>>, priority_fee, FALSE)
        \/ Steps(t)
        \/ StoreLocked(t)

\* One producer; its transactions list no account.  A lone producer never finds
\* the slot in the set under the lock, having just missed it there (NeverStoreLocked).
NextSeq ==
    \/ \E slot \in Slots, priority_fee \in Fees1, is_vote \in BOOLEAN :
          Call("p1", slot, <<>>, priority_fee, is_vote)
    \/ Steps("p1")

\* One producer; its transactions differ in their slot only.
NextWindow ==
    \/ \E slot \in Slots : Call("p1", slot, <<>>, 1, FALSE)
    \/ Steps("p1")

\* Concurrent producers, one of which may panic inside the write-locked section.
NextPoison ==
    \E t \in Threads :
        \/ \E slot \in Slots : Call(t, slot, <<>>, 1, FALSE)
        \/ Steps(t)
        \/ StoreLocked(t)
        \/ Panic(t)
        \/ LockPoisoned(t)

\* One producer, every account list.
NextLedger ==
    \/ \E slot \in Slots, accounts \in AccountLists, priority_fee \in Fees1,
          is_vote \in BOOLEAN : Call("p1", slot, accounts, priority_fee, is_vote)
    \/ Steps("p1")

Spec == Init /\ [][Next]_vars

SpecSeq == InitSeq /\ [][NextSeq]_vars

SpecWindow == InitWindow /\ [][NextWindow]_vars

SpecPoison == Init /\ [][NextPoison]_vars

SpecLedger == InitSeq /\ [][NextLedger]_vars

SpecAnyCap == InitAnyCap /\ [][NextSeq]_vars

\* ------------------------------------------------------------ queries
\* calculate_priority_fee (tracker.rs:77-84) on a tracker no push is running on:
\* get_priority_fee_estimates, then estimate_max_values from the default
\* accumulator, the buckets visited in whatever order the HashMap yields them.
Query(calc) ==
    /\ qpc = "idle"
    /\ \A t \in Threads : pc[t] = "idle"
    /\ request' = calc
    /\ stats' = get_priority_fee_estimates(calc, priority_fees)
    /\ \E order \in Orders(DOMAIN stats') :
          result' = estimate_max_values(stats', order, EstimatesDefault)
    /\ todo' = {}
    /\ qpc' = "done"
    /\ UNCHANGED <<capacity, poisoned, window, priority_fees, pc, args, oldest, budget,
                   sequential, history, scan, seen>>

\* calculate_priority_fee returns; its locals are dropped
QueryReturn ==
    /\ qpc = "done"
    /\ qpc' = "idle"
    /\ request' = NoCalculation
    /\ stats' = EmptyMap
    /\ todo' = {}
    /\ result' = EstimatesDefault
    /\ scan' = <<>>
    /\ seen' = EmptyMap
    /\ UNCHANGED <<capacity, poisoned, window, priority_fees, pc, args, oldest, budget,
                   sequential, history>>

\* One turn of the loop of estimate_max_values (tracker.rs:125-151): the next bucket
\* the HashMap yields is folded into the accumulator.
FoldStep(key) ==
    /\ qpc = "fold"
    /\ key \in todo
    /\ result' = FoldBucket(result, stats[key])
    /\ todo' = todo \ {key}
    /\ qpc' = IF todo' = {} THEN "done" ELSE "fold"
    /\ UNCHANGED <<capacity, poisoned, window, priority_fees, pc, args, oldest, budget,
                   sequential, history, request, stats, scan, seen>>

\* Transactions of the query runs: a vote transaction pays a fee that no non-vote
\* transaction pays, so a sample that came from a vote is recognised by its value.
VoteFee == 3
QueryTxs == {[priority_fee |-> 1, is_vote |-> FALSE],
             [priority_fee |-> VoteFee, is_vote |-> TRUE]}
QueryPushLists == {<<>>, <<"a">>}

\* The requests of the query runs
Lookbacks == {None, Some(0), Some(MaxLookback)}
RequestLists == {<<>>, <<"a", "b">>, <<"b", "a", "a">>}
Requests ==
    [algo : {"Calculation1", "Calculation2"}, accounts : RequestLists,
     include_vote : BOOLEAN, include_empty_slots : BOOLEAN, lookback_period : Lookbacks]

InitQuery == InitState({MaxCapacity}, TRUE, MaxPushesQuery)

\* One producer and one querier taking turns
NextQuery ==
    \/ /\ qpc = "idle"
       /\ \E slot \in 1..MaxSlot, accounts \in QueryPushLists, tx \in QueryTxs :
             Call("p1", slot, accounts, tx.priority_fee, tx.is_vote)
    \/ Steps("p1")
    \/ \E calc \in Requests : Query(calc)
    \/ QueryReturn

SpecQuery == InitQuery /\ [][NextQuery]_vars

\* ------------------------------------- queries that overlap with pushes
\* calculation.rs:119-126 (v1), :177-183 (v2): the ledger's slots are listed, sorted
\* newest first and cut to the lookback; the sample vectors start empty.  The two
\* vectors of v1 are held under the keys they are inserted with in the end.
QueryList(calc) ==
    /\ qpc = "idle"
    /\ request' = calc
    /\ LET slots_vec == SlotsVec(DOMAIN priority_fees)
           lookback == calculate_lookback_size(calc.lookback_period, Len(slots_vec))
       IN  scan' = SubSeq(slots_vec, 1, lookback)
    /\ stats' = IF calc.algo = "Calculation1"
                THEN MapInsert(MapInsert(EmptyMap, Global, <<>>), AllAccounts, <<>>)
                ELSE EmptyMap
    /\ seen' = EmptyMap
    /\ qpc' = "scan"
    /\ UNCHANGED <<capacity, poisoned, window, priority_fees, pc, args, oldest, budget,
                   sequential, history, todo, result>>

\* One turn of the loop over &slots_vec[..lookback] (calculation.rs:127-152,
\* :184-207): priority_fees.get(slot) reads the ledger as it is now, and the guard
\* it returns keeps the record as it is for the rest of the turn.
QuerySlot ==
    /\ qpc = "scan"
    /\ scan # <<>>
    /\ LET slot == Head(scan)
       IN  /\ stats' = IF request.algo = "Calculation1"
                       THEN LET st == V1Slots([global_fees |-> stats[Global],
                                               account_fees |-> stats[AllAccounts]],
                                              <<slot>>, request.accounts,
                                              request.include_vote,
                                              request.include_empty_slots, priority_fees)
                            IN  MapInsert(MapInsert(EmptyMap, Global, st.global_fees),
                                          AllAccounts, st.account_fees)
                       ELSE V2Slots(stats, <<slot>>, request.accounts,
                                    request.include_vote, request.include_empty_slots,
                                    priority_fees)
           /\ seen' = MapInsert(seen, slot, IF slot \in DOMAIN priority_fees
                                            THEN Some(priority_fees[slot]) ELSE None)
    /\ scan' = Tail(scan)
    /\ UNCHANGED <<capacity, poisoned, window, priority_fees, pc, args, oldest, budget,
                   sequential, history, qpc, request, todo, result>>

\* calculation.rs:154-157, :209-213 and tracker.rs:82: the DataStats is built from
\* the vectors and folded, the buckets in whatever order the HashMap yields them.
QueryFold ==
    /\ qpc = "scan"
    /\ scan = <<>>
    /\ \E order \in Orders(DOMAIN stats) :
          result' = estimate_max_values(stats, order, EstimatesDefault)
    /\ qpc' = "done"
    /\ UNCHANGED <<capacity, poisoned, window, priority_fees, pc, args, oldest, budget,
                   sequential, history, request, stats, todo, scan, seen>>

\* The requests of the overlapping runs: either algorithm, two accounts, 0.0 for
\* empty slots, every slot of the ledger
RaceRequests ==
    {calc \in Requests : /\ ~calc.include_vote
                         /\ calc.include_empty_slots
                         /\ calc.lookback_period = None
                         /\ calc.accounts = <<"a", "b">>}

InitRace == InitState({MaxCapacity}, TRUE, MaxPushesRace)

\* One producer and one querier, their steps interleaved
NextRace ==
    \/ \E slot \in Slots, accounts \in QueryPushLists :
          Call("p1", slot, accounts, 1, FALSE)
    \/ Steps("p1")
    \/ \E calc \in RaceRequests : QueryList(calc)
    \/ QuerySlot
    \/ QueryFold
    \/ QueryReturn

SpecRace == InitRace /\ [][NextRace]_vars

\* One producer whose transactions differ in fee, kind and accounts, and one querier,
\* their steps interleaved
FrameTxs == {[priority_fee |-> 1, is_vote |-> FALSE], [priority_fee |-> 2, is_vote |-> TRUE]}

FrameRequests == {calc \in RaceRequests : calc.algo = "Calculation1"}

InitFrame == InitState(1..MaxCapacity, TRUE, MaxPushesSeq)

NextFrame ==
    \/ \E slot \in 1..MaxSlot, accounts \in QueryPushLists, tx \in FrameTxs :
          Call("p1", slot, accounts, tx.priority_fee, tx.is_vote)
    \/ Steps("p1")
    \/ \E calc \in FrameRequests : QueryList(calc)
    \/ QuerySlot
    \/ QueryFold
    \/ QueryReturn

SpecFrame == InitFrame /\ [][NextFrame]_vars

\* Concurrent producers and a querier under fair scheduling: a thread that can take
\* its next step is not held back forever.  The only step that waits is the one that
\* takes slot_queue's write lock; the guards of the DashSet and of the DashMaps are
\* taken and dropped inside single steps, none of which waits for a lock while it
\* holds one (the per-account map of a record is reached through the record's guard).
InitLive == InitState(1..MaxCapacity, FALSE, MaxPushesLive)

Querier == QuerySlot \/ QueryFold \/ QueryReturn

NextLive ==
    \/ \E t \in Threads :
          \/ \E slot \in 1..MaxSlot : Call(t, slot, <<>>, 1, FALSE)
          \/ Steps(t)
          \/ StoreLocked(t)
    \/ \E calc \in FrameRequests : QueryList(calc)
    \/ Querier

Fairness ==
    /\ \A t \in Threads : WF_vars(Steps(t) \/ StoreLocked(t))
    /\ WF_vars(Querier)

SpecLive == InitLive /\ [][NextLive]_vars /\ Fairness

\* The estimate fold on its own: estimate_max_values is entered with a DataStats
\* of up to three buckets and the default accumulator.
SampleVectors == SeqsUpTo({0} \cup Fees1, MaxSamples)
BucketKeys == {{}, {Global}, {Global, AllAccounts}, {Global, Account("a")},
               {Global, Account("a"), Account("b")}}

InitFold ==
    /\ InitTracker({MaxCapacity}, TRUE, 0)
    /\ qpc = "fold"
    /\ request = NoCalculation
    /\ \E keys \in BucketKeys :
          /\ stats \in [keys -> SampleVectors]
          /\ todo = keys
    /\ result = EstimatesDefault
    /\ scan = <<>>
    /\ seen = EmptyMap

NextFold == \E key \in todo : FoldStep(key)

SpecFold == InitFold /\ [][NextFold]_vars

\* The run of test_priority_fee_tracker_basic (tracker.rs:159-185): capacity 10, the
\* fees 0..=100 pushed into slot 1 for three accounts, then one Calculation1 query.
ScenarioCapacity == 10
ScenarioPushes == 101
ScenarioAccounts == <<"a", "b", "c">>
ScenarioCalculation ==
    [algo |-> "Calculation1", accounts |-> ScenarioAccounts, include_vote |-> FALSE,
     include_empty_slots |-> FALSE, lookback_period |-> None]

InitScenario == InitState({ScenarioCapacity}, TRUE, ScenarioPushes)

\* Every push is of slot 1, which the hint names once it is admitted: the
\* set-membership hit of slot_cache.rs:36 is never taken.
NextScenario ==
    \/ Call("p1", 1, ScenarioAccounts, ScenarioPushes - budget, FALSE)
    \/ SetContains("p1")
    \/ Lock("p1")
    \/ SetRemove("p1")
    \/ SetInsert("p1")
    \/ StoreNew("p1")
    \/ Remove("p1")
    \/ Entry("p1")
    \/ Return("p1")
    \/ /\ budget = 0
       /\ Query(ScenarioCalculation)

SpecScenario == InitScenario /\ [][NextScenario]_vars

\* ------------------------------------------------------------ helpers
Idle == \A t \in Threads : pc[t] = "idle"

LastN(q, n) == SubSeq(q, Len(q) - n + 1, Len(q))

\* Number of fee entries of a Fees value
Entries(fees) == Len(fees.vote_fees) + Len(fees.non_vote_fees)

\* Every fee value of a Fees value
FeeValues(fees) == Range(fees.vote_fees) \cup Range(fees.non_vote_fees)

\* A lone producer never takes the hint store under the lock (slot_cache.rs:42-43).
NeverStoreLocked == pc["p1"] # "store_locked"

\* -------------------------------------------------------------- C1
\* C1: for every capacity C >= 1 and every interleaving of concurrent pushes,
\* SlotCache::len() (the size of slot_set) is at most C in every reachable state,
\* the states inside the write-locked section included.
C1_CapacityBound == Cardinality(slot_set) <= capacity

\* An eviction is half done (the evicted slot is out, the new one not yet in) while
\* the other producer is inside its own push, on a window of capacity 2.
C1_Witness ==
    \E t \in Threads, u \in Threads :
        /\ t # u
        /\ pc[t] = "set_insert"
        /\ oldest[t] # None
        /\ pc[u] # "idle"
        /\ capacity = 2

\* -------------------------------------------------------------- C2
\* C2: the ledger never holds more than C slot records, after any sequence or
\* interleaving of pushes on a tracker of capacity C.
C2_LedgerBound == Cardinality(DOMAIN priority_fees) <= capacity

\* -------------------------------------------------------------- C3
\* C3: whenever no push is in progress, every slot that is a key of the ledger is a
\* member of the window's set.
C3_LedgerKeysLive == Idle => DOMAIN priority_fees \subseteq slot_set

\* -------------------------------------------------------------- C4
\* The n slots pushed most recently, each counted once.
RECURSIVE LastDistinct(_, _, _)
LastDistinct(q, n, acc) ==
    IF q = <<>> \/ Cardinality(acc) = n THEN acc
    ELSE LastDistinct(SubSeq(q, 1, Len(q) - 1), n, acc \cup {q[Len(q)]})

\* C4 as stated, an admission being a call of push_pop: after at least C+1 distinct
\* slots have been pushed (in any order of slot numbers, with repeats), the live
\* slots are the last C distinct slots pushed.
C4_LastDistinctPushed ==
    (Idle /\ Cardinality(Range(calls)) >= capacity + 1)
        => slot_set = LastDistinct(calls, capacity, {})

\* C4 as amended, an admission being an entry into the window (a push of a slot
\* that is not live): once at least C+1 distinct slots have entered the window,
\* in any order of slot numbers, a slot possibly entering again after its
\* eviction, the live slots are exactly the last C slots that entered it, and those
\* are C distinct slots; a push of a live slot changes nothing.  Stated for the
\* states outside the write-locked section, where the set has caught up with the queue.
C4_FifoEviction ==
    (queue_writer = {} /\ Cardinality(Range(admitted)) >= capacity + 1)
        => /\ slot_set = Range(LastN(admitted, capacity))
           /\ Cardinality(slot_set) = capacity

\* Three slots entered a window of capacity 2 in an order that is not the order of
\* their numbers, the oldest live slot was pushed again before the third entered,
\* and it is the one dropped.
C4_Witness ==
    /\ Idle
    /\ capacity = 2
    /\ Len(admitted) = 3
    /\ Cardinality(Range(admitted)) = 3
    /\ admitted[1] > admitted[3]
    /\ admitted[1] \notin slot_set
    /\ Len(calls) = 4
    /\ calls[3] = admitted[1]

\* C4_FifoEviction also holds under concurrent producers (specification Spec).

\* -------------------------------------------------------------- C5
\* The position of x's latest entry in the admission log.
LatestEntry(log, x) ==
    CHOOSE i \in 1..Len(log) : log[i] = x /\ \A j \in (i + 1)..Len(log) : log[j] # x

\* The live slot that entered the window earliest.
EarliestLive(log, live) ==
    CHOOSE x \in live : \A y \in live : LatestEntry(log, x) <= LatestEntry(log, y)

\* C5: push_pop(slot) returns Some(e) exactly when slot was not live and the window
\* already held C slots, and then e is the earliest-admitted slot that was live;
\* in every other case it returns None.  Checked when push_pop has returned in a
\* single-threaded run, against the window as it was at the call.
C5_PushPopResult ==
    (pc["p1"] = "remove" /\ snap.taken)
        => LET slot == args["p1"].slot
               evicts == slot \notin snap.set /\ Cardinality(snap.set) = capacity
           IN  oldest["p1"] = IF evicts THEN Some(EarliestLive(snap.log, snap.set))
                              ELSE None

\* push_pop has returned an evicted slot from a full window of capacity 2.
C5_Witness ==
    /\ pc["p1"] = "remove"
    /\ snap.taken
    /\ capacity = 2
    /\ oldest["p1"] # None
    /\ Cardinality(snap.set) = 2

\* -------------------------------------------------------------- C6
\* C6: a push_pop(s) with s live returns None and leaves the set of live slots and
\* the FIFO order as they were, on the last-seen fast path and on the
\* set-membership path alike; it never reaches the write lock.
C6_IdempotentReadmission ==
    (snap.taken /\ args["p1"].slot \in snap.set)
        => /\ pc["p1"] \in {"contains", "store_hit", "remove", "entry", "done"}
           /\ oldest["p1"] = None
           /\ slot_set = snap.set
           /\ slot_queue = snap.queue

\* The set-membership path: a live slot that is not the last seen one is pushed
\* again into a window of two.
C6_Witness ==
    /\ snap.taken
    /\ pc["p1"] = "store_hit"
    /\ args["p1"].slot \in snap.set
    /\ Cardinality(snap.set) = 2
    /\ last_seen_slot # args["p1"].slot

\* -------------------------------------------------------------- C7
\* C7: in a single-threaded run, when a push that evicted slot e returns, the
\* ledger has no record for e, and (for every push) it has a record for the
\* pushed slot that contains the pushed fee.
C7_EvictThenAppend ==
    pc["p1"] = "done"
        => LET a == args["p1"]
           IN  /\ oldest["p1"] # None => oldest["p1"][1] \notin DOMAIN priority_fees
               /\ a.slot \in DOMAIN priority_fees
               /\ AsF64(a.priority_fee) \in
                     Range(IF a.is_vote THEN priority_fees[a.slot].fees.vote_fees
                           ELSE priority_fees[a.slot].fees.non_vote_fees)

\* A push that evicted a slot from a window of two is about to return.
C7_Witness ==
    /\ pc["p1"] = "done"
    /\ oldest["p1"] # None
    /\ capacity = 2

\* -------------------------------------------------------------- C8
\* C8: for every live slot record, the number of entries of its global fees equals
\* the number of pushes ingested for the slot since the record was created, and
\* for every account a the number of entries of account_fees[a] equals the number
\* of those pushes whose account list contains a (lists that repeat an account
\* included, on the creating push and on the appending ones).
C8_OneEntryPerPush ==
    \A s \in DOMAIN priority_fees :
        /\ Entries(priority_fees[s].fees) = ingested[s].n
        /\ \A a \in Accounts :
              ingested[s].acc[a] =
                  IF a \in DOMAIN priority_fees[s].account_fees
                  THEN Entries(priority_fees[s].account_fees[a]) ELSE 0

\* -------------------------------------------------------------- C9
\* C9: once a push of (s, fee) has returned, the record of s holds that fee for
\* as long as s has not been evicted by an admission made after the return.
\* Stated in its weakest form: a push owes nothing either when s was evicted
\* between its call and its return.
C9_CompletedPushKept ==
    \A o \in owed :
        /\ o.slot \in DOMAIN priority_fees
        /\ o.fee \in FeeValues(priority_fees[o.slot].fees)

\* ------------------------------------------------------------- C10
\* C10: a capacity of 0 is rejected at construction, so no push ever starts on a
\* tracker whose capacity is 0.
C10_ZeroCapacityRejected == capacity = 0 => (Idle /\ budget = MaxPushesSeq)

\* ------------------------------------------------------------- C11
\* C11: a push whose slot_queue.write() failed on a poisoned lock is a no-op: it
\* reports no eviction and its entry step appends nothing, leaving the ledger as
\* it was.  (The other failure the claim names, an Err from the queue's add, is not
\* produced by CircularBuffer::add.)
C11_FailedPushIsNoOp ==
    [][\A t \in Threads :
          (t \in lock_failed /\ pc[t] = "entry" /\ pc'[t] = "done")
              => (oldest[t] = None /\ priority_fees' = priority_fees)]_vars

\* ------------------------------------------------- helpers of C12..C20
\* The samples of a bucket of the query's DataStats; none when the key is absent
Samples(key) == IF key \in DOMAIN stats THEN stats[key] ELSE <<>>

\* How often v occurs in a vector
CountOf(q, v) == Cardinality({i \in 1..Len(q) : q[i] = v})

\* The number of slots a request is to examine: min(ledger slots, lookback), every
\* slot when the lookback is absent
ExaminedCount ==
    LET n == Cardinality(DOMAIN priority_fees)
    IN  IF request.lookback_period = None \/ request.lookback_period[1] >= n
        THEN n ELSE request.lookback_period[1]

\* The ExaminedCount highest-numbered slots of the ledger
Examined ==
    {s \in DOMAIN priority_fees :
        Cardinality({r \in DOMAIN priority_fees : r > s}) < ExaminedCount}

RECURSIVE SumOver(_, _)
SumOver(S, f) ==
    IF S = {} THEN 0
    ELSE LET x == CHOOSE y \in S : TRUE IN f[x] + SumOver(S \ {x}, f)

\* ------------------------------------------------------------- C12
\* C12: for every ledger and every request, the Calculation1 result has exactly the
\* two keys Global and AllAccounts, and the AllAccounts bucket is empty whenever
\* the requested account list is empty.
C12_TwoBuckets ==
    (qpc = "done" /\ request.algo = "Calculation1")
        => /\ DOMAIN stats = {Global, AllAccounts}
           /\ request.accounts = <<>> => stats[AllAccounts] = <<>>

\* A Calculation1 query without accounts, with include_empty_slots, that examined a
\* slot holding account fees and a slot holding none.
C12_Witness ==
    /\ qpc = "done"
    /\ request.algo = "Calculation1"
    /\ request.accounts = <<>>
    /\ request.include_empty_slots
    /\ stats[Global] # <<>>
    /\ \E s \in Examined : "a" \in DOMAIN priority_fees[s].account_fees
    /\ \E s \in Examined : "a" \notin DOMAIN priority_fees[s].account_fees

\* ------------------------------------------------------------- C13
\* C13: under Calculation2, for a requested account with no entry in any examined
\* slot, the bucket Account(a) is in the result if and only if include_empty_slots
\* is true, and every sample in it is 0.0; and the result holds an account bucket
\* only for requested accounts that produced at least one sample.  Stated for the
\* queries that examine at least one slot.
C13_EmptySlotsSymmetry ==
    (qpc = "done" /\ request.algo = "Calculation2" /\ Examined # {})
        => /\ \A a \in Range(request.accounts) :
                (\A s \in Examined : a \notin DOMAIN priority_fees[s].account_fees)
                    => /\ Account(a) \in DOMAIN stats <=> request.include_empty_slots
                       /\ \A i \in 1..Len(Samples(Account(a))) : Samples(Account(a))[i] = 0
           /\ \A a \in Pubkeys :
                Account(a) \in DOMAIN stats
                    => a \in Range(request.accounts) /\ stats[Account(a)] # <<>>

\* ------------------------------------------------------------- C14
\* C14: with include_vote = false, under both algorithms, no fee ingested with
\* is_vote = true is in any bucket of the result; with include_vote = true the
\* Global bucket holds every vote fee of the examined slots.
C14_VoteIsolation ==
    qpc = "done"
        => /\ ~request.include_vote
                => \A k \in DOMAIN stats : VoteFee \notin Range(stats[k])
           /\ request.include_vote
                => CountOf(Samples(Global), VoteFee) =
                       SumOver(Examined, [s \in Examined |->
                                            Len(priority_fees[s].fees.vote_fees)])

\* A query with include_vote = false and requested accounts that examined a slot
\* whose record, and whose record for account a, hold a vote fee.
C14_Witness ==
    /\ qpc = "done"
    /\ ~request.include_vote
    /\ request.accounts # <<>>
    /\ \E s \in Examined :
          /\ priority_fees[s].fees.vote_fees # <<>>
          /\ priority_fees[s].fees.non_vote_fees # <<>>
          /\ "a" \in DOMAIN priority_fees[s].account_fees
          /\ priority_fees[s].account_fees["a"].vote_fees # <<>>

\* ------------------------------------------------------------- C15
\* C15: a query examines exactly L = min(ledger slots, lookback) slots, every slot
\* when the lookback is absent, and they are the L highest-numbered slots of the
\* ledger: the samples of the Global bucket are, as a multiset, the selected fees
\* (non-vote, and vote when include_vote) of exactly those slots.
C15_LookbackNewest ==
    qpc = "done"
        => \A v \in {1, VoteFee} :
              CountOf(Samples(Global), v) =
                  SumOver(Examined, [s \in Examined |->
                      CountOf(priority_fees[s].fees.non_vote_fees, v)
                      + IF request.include_vote
                        THEN CountOf(priority_fees[s].fees.vote_fees, v) ELSE 0])

\* The lookback cuts the ledger: a lower slot holding fees is left out, a higher one
\* is examined.
C15_Witness ==
    /\ qpc = "done"
    /\ request.lookback_period = Some(MaxLookback)
    /\ Cardinality(DOMAIN priority_fees) > MaxLookback
    /\ Cardinality(Examined) = MaxLookback
    /\ Samples(Global) # <<>>
    /\ \E s \in DOMAIN priority_fees \ Examined :
          priority_fees[s].fees.non_vote_fees # <<>>

\* ------------------------------------------------------------- C16
\* C16: adding one more bucket to the estimate fold can only raise, never lower, each
\* level: every level that is a number before a bucket is folded in is a number
\* at least as large after it.
C16_FoldMonotone ==
    [][\A level \in Levels :
          ~IsNan(result[level])
              => /\ ~IsNan(result'[level])
                 /\ ~Gt(result[level], result'[level])]_vars

\* A fold over three buckets, one of them empty, is done: one bucket's median was
\* above another's and it is the estimate.
C16_Witness ==
    /\ qpc = "done"
    /\ Cardinality(DOMAIN stats) = 3
    /\ \E k \in DOMAIN stats : stats[k] = <<>>
    /\ \E k1 \in DOMAIN stats, k2 \in DOMAIN stats :
          /\ Gt(percentile(stats[k2], 50), percentile(stats[k1], 50))
          /\ result["medium"] = percentile(stats[k2], 50)

\* ------------------------------------------------------------- C17
\* C17: capacity 10, the fees 0..=100 pushed as non-vote into slot 1 for the accounts
\* a, b, c; the Calculation1 query with accounts {a, b, c}, include_vote = false,
\* include_empty_slots = false and no lookback returns min = 0, low = 25,
\* medium = 50, high = 75, very_high = 96, unsafe_max = 100.
C17_BasicPercentiles ==
    qpc = "done"
        => result = [min |-> Num(0 * Unit), low |-> Num(25 * Unit),
                     medium |-> Num(50 * Unit), high |-> Num(75 * Unit),
                     very_high |-> Num(96 * Unit), unsafe_max |-> Num(100 * Unit)]

\* ------------------------------------------------------------- C18
\* C18: under both algorithms the result always has the Global key, also when no
\* slot is examined; with lookback = 0 every key the same request yields with a
\* lookback that examines every slot is present, with an empty sample vector.
C18_GlobalAlways ==
    qpc = "done"
        => /\ Global \in DOMAIN stats
           /\ request.lookback_period = Some(0)
                => /\ DOMAIN stats =
                        DOMAIN get_priority_fee_estimates(
                                   [request EXCEPT !.lookback_period = None], priority_fees)
                   /\ \A k \in DOMAIN stats : stats[k] = <<>>

\* ------------------------------------------------------------- C19
\* C19: the fold starts every level at NaN: a level of the estimate that
\* calculate_priority_fee returns is a number only if some bucket has a non-NaN
\* percentile at that level, so with every bucket empty, or no bucket, all six
\* levels are NaN.
C19_EmptyIsNaN ==
    qpc = "done"
        => \A level \in Levels :
              ~IsNan(result[level])
                  => \E k \in DOMAIN stats : ~IsNan(percentile(stats[k], PointOf(level)))

\* ------------------------------------------------------------- C20
\* C20: the fold does not depend on the order the buckets are visited in: whatever
\* the order, each level of the outcome is the maximum of the buckets' non-NaN
\* percentiles at that level (and the accumulator's starting value when every
\* bucket's percentile is NaN).
C20_FoldOrderFree ==
    qpc = "done"
        => \A level \in Levels :
              LET values == {percentile(stats[k], PointOf(level)) : k \in DOMAIN stats}
                                \ {NaN}
              IN  result[level] = IF values = {} THEN EstimatesDefault[level]
                                  ELSE Num(MaxOf({v[1] : v \in values}))

\* A fold over three buckets is done: one is empty, and of the other two one has
\* the higher minimum and the other the higher maximum.
C20_Witness ==
    /\ qpc = "done"
    /\ todo = {}
    /\ \E k \in DOMAIN stats : stats[k] = <<>>
    /\ \E k1 \in DOMAIN stats, k2 \in DOMAIN stats :
          /\ Gt(percentile(stats[k1], 0), percentile(stats[k2], 0))
          /\ Gt(percentile(stats[k2], 100), percentile(stats[k1], 100))

\* ------------------------------------------------------------- C21
\* C21: under Calculation1 the number of 0.0 samples in AllAccounts is, when
\* include_empty_slots is true and the account list is not empty, the number of
\* examined slots in which no requested account has a fee entry (one 0.0 per such
\* slot, however many requested accounts are missing), and zero when
\* include_empty_slots is false or the account list is empty.
C21_OneZeroPerEmptySlot ==
    (qpc = "done" /\ request.algo = "Calculation1")
        => CountOf(stats[AllAccounts], 0) =
              IF request.include_empty_slots /\ request.accounts # <<>>
              THEN Cardinality({s \in Examined :
                      \A a \in Range(request.accounts) :
                          a \notin DOMAIN priority_fees[s].account_fees})
              ELSE 0

\* A Calculation1 query with include_empty_slots for two accounts examined a slot
\* where both are missing, and a slot where one of them has fees and the other not.
C21_Witness ==
    /\ qpc = "done"
    /\ request.algo = "Calculation1"
    /\ request.include_empty_slots
    /\ Cardinality(Range(request.accounts)) = 2
    /\ CountOf(stats[AllAccounts], 0) = 1
    /\ \E s \in Examined : DOMAIN priority_fees[s].account_fees = {}
    /\ \E s \in Examined : DOMAIN priority_fees[s].account_fees = {"a"}

\* ------------------------------------------------------------- C22
\* How often a value occurs among the fees a request selects from a Fees value
Selected(fees, v) ==
    CountOf(fees.non_vote_fees, v)
    + IF request.include_vote THEN CountOf(fees.vote_fees, v) ELSE 0

\* What one examined slot gives the bucket of account a, counted for the value v
SlotShare(s, a, v) ==
    IF a \in DOMAIN priority_fees[s].account_fees
    THEN Selected(priority_fees[s].account_fees[a], v)
    ELSE IF request.include_empty_slots /\ v = 0 THEN 1 ELSE 0

\* C22: under Calculation2, for each requested account a the bucket
\* Account(a) is the multiset union, over the examined slots, of a's fees in the
\* slot (non-vote, and vote if include_vote) when the slot has an entry for a, and
\* otherwise of a single 0.0 if include_empty_slots and of nothing if not.
C22_AccountBucket ==
    (qpc = "done" /\ request.algo = "Calculation2")
        => \A a \in Range(request.accounts), v \in {0, 1, VoteFee} :
              CountOf(Samples(Account(a)), v) =
                  SumOver(Examined, [s \in Examined |-> SlotShare(s, a, v)])

\* ------------------------------------------------------------- C23
\* The slots of the query's list whose record was there when the query read it
Resolved == {s \in DOMAIN seen : seen[s] # None}

\* What a resolved slot gave the bucket Account(a) in 0.0 samples (Calculation2)
ZeroShare(s, a) == IF a \in DOMAIN seen[s][1].account_fees THEN 0 ELSE 1

\* C23: under either algorithm, a slot of the query's slot list whose record has
\* left the ledger by the time the query reads it contributes no sample and no 0.0
\* injection: Global holds exactly the fees of the records the query found, and the
\* injected 0.0 samples are counted over the slots whose record it found only.
C23_LostSlotContributesNothing ==
    qpc = "done" =>
        /\ \A v \in {0, 1} :
              CountOf(Samples(Global), v) =
                  SumOver(Resolved, [s \in Resolved |-> Selected(seen[s][1].fees, v)])
        /\ request.algo = "Calculation1" =>
              CountOf(Samples(AllAccounts), 0) =
                  IF request.include_empty_slots /\ request.accounts # <<>>
                  THEN Cardinality({s \in Resolved :
                          \A a \in Range(request.accounts) :
                              a \notin DOMAIN seen[s][1].account_fees})
                  ELSE 0
        /\ request.algo = "Calculation2" =>
              \A a \in Range(request.accounts) :
                  CountOf(Samples(Account(a)), 0) =
                      IF request.include_empty_slots
                      THEN SumOver(Resolved, [s \in Resolved |-> ZeroShare(s, a)])
                      ELSE 0

\* A query that injects 0.0 for empty slots found the record of one listed slot and
\* found another listed slot gone, evicted between the listing and the read.
C23_Witness ==
    /\ qpc = "done"
    /\ request.include_empty_slots
    /\ request.accounts # <<>>
    /\ Resolved # {}
    /\ \E s \in DOMAIN seen : seen[s] = None

\* ------------------------------------------------------------- C28
IsPrefix(old, new) == Len(old) <= Len(new) /\ SubSeq(new, 1, Len(old)) = old

FeesGrow(old, new) ==
    /\ IsPrefix(old.vote_fees, new.vote_fees)
    /\ IsPrefix(old.non_vote_fees, new.non_vote_fees)

\* A record after a push of its slot: what was there is still there, in place, and
\* entries were only appended
RecordGrows(old, new) ==
    /\ new.slot = old.slot
    /\ FeesGrow(old.fees, new.fees)
    /\ DOMAIN old.account_fees \subseteq DOMAIN new.account_fees
    /\ \A a \in DOMAIN old.account_fees : FeesGrow(old.account_fees[a], new.account_fees[a])

\* C28: a push for slot s changes only the record of s and, if it evicted a slot e,
\* removes the record of e: the records of all other slots are unchanged, and the
\* existing fee lists of s only grow by appended entries.  A query changes neither
\* the window nor the ledger.
C28_Frame ==
    [][/\ \A s \in DOMAIN priority_fees \cup DOMAIN priority_fees' :
             \/ /\ s \in DOMAIN priority_fees
                /\ s \in DOMAIN priority_fees'
                /\ priority_fees'[s] = priority_fees[s]
             \/ \E t \in Threads :
                   /\ pc[t] = "entry" /\ pc'[t] = "done"
                   /\ s = args[t].slot
                   /\ s \in DOMAIN priority_fees'
                   /\ s \in DOMAIN priority_fees
                         => RecordGrows(priority_fees[s], priority_fees'[s])
             \/ \E t \in Threads :
                   /\ pc[t] = "remove" /\ pc'[t] = "entry"
                   /\ oldest[t] = Some(s)
                   /\ s \notin DOMAIN priority_fees'
       /\ (qpc' # qpc \/ scan' # scan) => UNCHANGED <<window, priority_fees>>
      ]_vars

\* A push has appended to a record that held a vote and a non-vote fee and the fees
\* of an account, a record was removed on eviction and created again, and a query is
\* part-way through its slots.
C28_Witness ==
    /\ \E s \in DOMAIN priority_fees :
          /\ Len(priority_fees[s].fees.non_vote_fees) + Len(priority_fees[s].fees.vote_fees) >= 2
          /\ "a" \in DOMAIN priority_fees[s].account_fees
    /\ Len(admitted) > capacity
    /\ qpc = "scan"
    /\ DOMAIN seen # {}

\* ------------------------------------------------------------- C24
\* C24: whenever no thread is inside the exclusive section of push_pop, the window's
\* queue and its set hold the same slots, each once, and at most C of them, in
\* every interleaving of concurrent push_pop calls.
C24_WindowConsistent ==
    queue_writer = {} =>
        /\ Range(slot_queue) = slot_set
        /\ Len(slot_queue) = Cardinality(slot_set)
        /\ Len(slot_queue) <= capacity

\* The lock is free after an admission that evicted a slot, the window is full, one
\* thread is back from push_pop with the evicted slot and another waits for the lock.
C24_Witness ==
    /\ queue_writer = {}
    /\ Len(slot_queue) = capacity
    /\ Len(admitted) > capacity
    /\ \E t, u \in Threads : /\ pc[t] = "remove" /\ oldest[t] # None
                            /\ pc[u] = "lock"

\* ------------------------------------------------------------- C25
\* C25: whenever push_pop(s) returns through the hint fast path (the hint equals s),
\* s is in the window's set at that moment, so the hint never lets a push append for
\* a slot that has been evicted.  Stated for the slots below u64::MAX, the value the
\* hint starts with.
C25_HintImpliesLive ==
    [][\A t \in Threads :
          (pc[t] = "idle" /\ pc'[t] = "remove" /\ args'[t].slot # U64_MAX)
              => args'[t].slot \in slot_set]_vars

\* ------------------------------------------------------------- C26
\* C26: the first push of any slot s, u64::MAX included, on a freshly constructed
\* tracker admits s: once it has returned, s is in the window's queue and set and
\* the ledger has the record of s.
C26_FirstPushAdmits ==
    (Len(calls) = 1 /\ Idle) =>
        /\ calls[1] \in slot_set
        /\ calls[1] \in Range(slot_queue)
        /\ calls[1] \in DOMAIN priority_fees

==========================================================================
